---- MODULE Spec2Model ----
(***************************************************************************)
(* Model of the emc-toolkit measurement code:                              *)
(*   rigol/dsa800.py       dsa800.get_trace_adv, dsa800_config             *)
(*   rigol/storage.py      Measurement                                     *)
(*   component/component.py component.corrected_measurement               *)
(*   emc/limit.py          limit.limit_func                                *)
(*   adv_trace.py          the measurement script                          *)
(*                                                                         *)
(* Units.  Frequencies of the acquisition are small integers (one unit is  *)
(* one span step).  Frequencies of the limit table and of the component    *)
(* tables are in MHz (30e6 Hz is 30).  Limit values are in tenths of the   *)
(* table's unit (40.5 is 405), so that every value is an integer.          *)
(* A reconstructed frequency of get_trace_adv is the rational <<num, den>>.*)
(***************************************************************************)
EXTENDS Integers, Sequences, FiniteSets, TLC

VARIABLES
    inst,      \* the instrument's settings and sweep progress
    pc,        \* position of get_trace_adv
    args,      \* arguments of the running get_trace_adv call
    loc,       \* locals of get_trace_adv
    cmds,      \* commands written to / queried from the instrument by the call
    ret,       \* value returned by get_trace_adv, or the error it raised
    entry,     \* the instrument's settings when get_trace_adv was called
    fin,       \* input of a pure function application
    fout,      \* its output
    rec,       \* the Measurement assembled by add_trace/add_component/add_limit
    loaded,    \* the Measurement constructed from a file
    file,      \* the CSV file
    out,       \* outcome of the last Measurement operation
    flow       \* state of the adv_trace.py script

vars == <<inst, pc, args, loc, cmds, ret, entry, fin, fout, rec, loaded, file, out, flow>>

acqVars == <<inst, pc, args, loc, cmds, ret, entry>>
funcVars == <<fin, fout>>
recVars == <<rec, loaded, file, out>>
notAcqVars == <<fin, fout, rec, loaded, file, out, flow>>

None == "None"

----------------------------------------------------------------------------
(* Bounds of the model *)

MaxFreq == 3
MaxSpan == 2
MaxPoints == 3
MaxSweeps == 2
MaxQuant == 1
MaxTraceLen == 2
MaxVec == 2
MaxChain == 2
MaxItems == 2

(* Program constants *)

SweepCountMin == 1
SweepCountMax == 9999

----------------------------------------------------------------------------
(* rigol/dsa800.py: the instrument session *)

\* TRACE_MODE: the query reply -> the name used when writing
TRACE_MODE ==
    [k \in {"WRIT", "MAXH", "MINH", "VIEW", "BLAN", "VID", "POW"} |->
        CASE k = "WRIT" -> "WRITe"
          [] k = "MAXH" -> "MAXHold"
          [] k = "MINH" -> "MINHold"
          [] k = "VIEW" -> "VIEW"
          [] k = "BLAN" -> "BLANk"
          [] k = "VID"  -> "VIDeoavg"
          [] k = "POW"  -> "POWeravg"]

TraceModeValues == {TRACE_MODE[k] : k \in DOMAIN TRACE_MODE}

\* the reply key of a written mode name (the instrument stores what was written)
ModeKey(name) == CHOOSE k \in DOMAIN TRACE_MODE : TRACE_MODE[k] = name

\* get_continuous_en: the instrument replies "1" or "0"
get_continuous_en(i) ==
    LET en == IF i.continuous THEN "1" ELSE "0"
    IN  (en = "ON") \/ (en = "1")

\* set_continuous_en
set_continuous_en(i, en) == [i EXCEPT !.continuous = (en = TRUE)]

get_sweep_count(i) == i.sweep_count

\* a command written to the instrument
Cmd(name, num, text) == [name |-> name, num |-> num, text |-> text]

\* set_sweep_count: writes only a count in 1..9999, otherwise only prints
sweep_count_ok(count) == SweepCountMin <= count /\ count <= SweepCountMax

set_sweep_count(i, count) ==
    IF sweep_count_ok(count)
    THEN [i EXCEPT !.sweep_count = count]
    ELSE i

\* what set_sweep_count writes
set_sweep_count_cmds(count) ==
    IF sweep_count_ok(count) THEN <<Cmd("COUNT", count, "")>> ELSE <<>>

\* what set_continuous_en writes
set_continuous_en_cmds(en) ==
    <<Cmd("CONT", 0, IF en = TRUE THEN "ON" ELSE "OFF")>>

get_trace_mode(i) == TRACE_MODE[i.trace_mode]

\* set_trace_mode: writes only a known mode name
set_trace_mode(i, mode) ==
    IF mode \in TraceModeValues
    THEN [i EXCEPT !.trace_mode = ModeKey(mode)]
    ELSE i

\* mutant: the trace mode is never written
set_trace_mode_cmds_silent(mode) == <<>>

\* what set_trace_mode writes
set_trace_mode_cmds(mode) ==
    IF mode \in TraceModeValues THEN <<Cmd("MODE", 0, mode)>> ELSE <<>>

set_start_freq(i, f) == [i EXCEPT !.start_freq = f]

\* set_stop_freq: the instrument quantizes the programmed value by q
set_stop_freq(i, f, q) == [i EXCEPT !.stop_freq = f + q]

get_stop_freq(i) == i.stop_freq

\* trigger_single_sweep: :INITiate:IMMediate restarts the sweep counter
trigger_single_sweep(i) == [i EXCEPT !.sweep_cur = 0, !.sweeping = TRUE]

get_sweep_count_current(i) == i.sweep_cur

\* get_sweep_time: the instrument's sweep time, a positive number
get_sweep_time(i) == i.sweep_time

\* time.sleep(secs): ValueError for a negative length
sleep(secs) == IF secs < 0 THEN "ValueError" ELSE ""

\* a sample of the trace buffer: point idx of the buffer read for segment seg
Sample(seg, idx) == <<seg, idx>>

\* parse_ascii: None unless the buffer starts with "#9", else its values
parse_ascii(data) ==
    IF data.head # "#9"
    THEN [kind |-> "None", values |-> <<>>]
    ELSE [kind |-> "array", values |-> data.values]

\* the block the instrument returns for :TRACe:DATA? TRACE1
TraceBlock(i, seg, wellFormed) ==
    [head |-> IF wellFormed THEN "#9" ELSE "ER",
     values |-> [k \in 1..i.sweep_points |-> Sample(seg, k)]]

\* get_trace: the parsed reply of the trace query
get_trace(i, seg, wellFormed) == parse_ascii(TraceBlock(i, seg, wellFormed))

----------------------------------------------------------------------------
(* numpy helpers of get_trace_adv *)

\* mutant: the last point of a segment is kept
AllButLast_keep(s) == s

\* trace_data[:-1]
AllButLast(s) == IF Len(s) = 0 THEN s ELSE SubSeq(s, 1, Len(s) - 1)

\* mutant: the step is an integer division
linspace_intstep(start, stop, n) ==
    LET den == IF n > 1 THEN n - 1 ELSE 1
    IN  [k \in 1..n |-> <<start + (k - 1) * ((stop - start) \div den), 1>>]

\* np.linspace(start, stop, n): n points, the i-th (from 0) is
\* start + i * (stop - start) / (n - 1); a single point is start
linspace(start, stop, n) ==
    LET den == IF n > 1 THEN n - 1 ELSE 1
    IN  [k \in 1..n |-> <<start * den + (k - 1) * (stop - start), den>>]

\* mutant: the filter keeps a point at stop_freq
below_stop_inclusive(f, stop_freq) == f[1] <= stop_freq * f[2]

\* freq < stop_freq for a rational freq and an integer stop_freq
below_stop(f, stop_freq) == f[1] < stop_freq * f[2]

RECURSIVE MaskSelect(_, _, _)
\* x[mask]: the elements of x at the positions where mask holds, in order
MaskSelect(x, mask, k) ==
    IF k > Len(x) THEN <<>>
    ELSE (IF mask[k] THEN <<x[k]>> ELSE <<>>) \o MaskSelect(x, mask, k + 1)

\* np.array([freq[freq < stop_freq], trace[freq < stop_freq]]).T
filtered_trace(freq, trace, stop_freq) ==
    LET mask == [k \in 1..Len(freq) |-> below_stop(freq[k], stop_freq)]
        f == MaskSelect(freq, mask, 1)
        t == MaskSelect(trace, mask, 1)
    IN  [k \in 1..Len(f) |-> <<f[k], t[k]>>]

----------------------------------------------------------------------------
(* rigol/dsa800.py: get_trace_adv *)

Unbound == [kind |-> "Unbound", values |-> <<>>]

\* what a call has produced: nothing yet, a returned trace, or a raised error
NoResult == [kind |-> "none", rows |-> <<>>, error |-> ""]
Returned(rows) == [kind |-> "returned", rows |-> rows, error |-> ""]
Raised(error) == [kind |-> "raised", rows |-> <<>>, error |-> error]

StartInputs == 0..1
StopInputs == 0..MaxFreq
SpanInputs == 1..MaxSpan
SweepsInputs == (-1..MaxSweeps) \cup {SweepCountMax + 1}
ModeInputs == {"WRIT", "MAXH"}
ReadOutcomes == {"ok", "malformed", "ioerror"}

InitInst ==
    inst \in [continuous : BOOLEAN,
              sweep_count : 1..MaxSweeps,
              trace_mode : ModeInputs,
              sweep_points : 1..MaxPoints,
              start_freq : {0},
              stop_freq : {MaxFreq},
              sweep_cur : {0},
              sweeping : {FALSE},
              sweep_time : {1}]

NoArgs == [start_freq |-> 0, stop_freq |-> 0, span |-> 0, sweeps |-> 0]
NoLoc == [continuous_sweep |-> FALSE, sweep_count |-> 0, trace_mode |-> None,
          start_f |-> 0, trace |-> <<>>, trace_data |-> Unbound,
          sweep_current |-> -1, segs |-> <<>>]

InitAcq ==
    /\ InitInst
    /\ pc = "idle"
    /\ args = NoArgs
    /\ loc = NoLoc
    /\ cmds = <<>>
    /\ ret = NoResult
    /\ entry = inst

\* lines 333-344: record the settings, single sweep mode, requested sweep count
Call(start_freq, stop_freq, span, sweeps) ==
    /\ pc = "idle"
    /\ LET i1 == set_continuous_en(inst, FALSE)
           i2 == set_sweep_count(i1, sweeps)
       IN  /\ inst' = i2
           /\ loc' = [continuous_sweep |-> get_continuous_en(inst),
                      sweep_count |-> get_sweep_count(inst),
                      trace_mode |-> get_trace_mode(i2),
                      start_f |-> start_freq,
                      trace |-> <<>>,
                      trace_data |-> Unbound,
                      sweep_current |-> -1,
                      segs |-> <<>>]
           /\ cmds' = set_continuous_en_cmds(FALSE) \o set_sweep_count_cmds(sweeps)
    /\ args' = [start_freq |-> start_freq, stop_freq |-> stop_freq,
                span |-> span, sweeps |-> sweeps]
    /\ entry' = inst
    /\ pc' = "loop"
    /\ UNCHANGED ret
    /\ UNCHANGED notAcqVars

\* lines 345-359: one more segment: trace mode, start, stop, trigger, sleep
SegmentSetup ==
    /\ pc = "loop"
    /\ loc.start_f < args.stop_freq
    /\ \E q \in -MaxQuant..MaxQuant :
          inst' = trigger_single_sweep(
                      set_stop_freq(
                          set_start_freq(set_trace_mode(inst, loc.trace_mode),
                                         loc.start_f),
                          loc.start_f + args.span, q))
    /\ cmds' = cmds \o set_trace_mode_cmds(loc.trace_mode)
                     \o <<Cmd("START", loc.start_f, ""),
                          Cmd("STOP", loc.start_f + args.span, ""),
                          Cmd("INIT", 0, "")>>
    /\ loc' = [loc EXCEPT !.segs = Append(@, <<loc.start_f, loc.start_f + args.span>>)]
    /\ LET wait_time == get_sweep_time(inst) * args.sweeps * 9   \* in tenths
           error == sleep(wait_time)
       IN  IF error # ""
           THEN pc' = "raised" /\ ret' = Raised(error)
           ELSE pc' = "poll" /\ ret' = ret
    /\ UNCHANGED <<args, entry>>
    /\ UNCHANGED notAcqVars

\* the instrument completes one more sweep of the triggered single sweep
InstrumentSweep ==
    /\ inst.sweeping
    /\ inst.sweep_cur < inst.sweep_count
    /\ inst' = [inst EXCEPT !.sweep_cur = @ + 1,
                            !.sweeping = (inst.sweep_cur + 1 < inst.sweep_count)]
    /\ UNCHANGED <<pc, args, loc, cmds, ret, entry>>
    /\ UNCHANGED notAcqVars

\* mutant: the completed sweeps are read once and never waited for
Poll_once ==
    /\ pc = "poll"
    /\ loc' = [loc EXCEPT !.sweep_current = get_sweep_count_current(inst)]
    /\ pc' = "read"
    /\ UNCHANGED <<inst, args, cmds, ret, entry>>
    /\ UNCHANGED notAcqVars

\* lines 361-364: read the completed sweeps; leave the loop once >= sweeps
Poll ==
    /\ pc = "poll"
    /\ loc' = [loc EXCEPT !.sweep_current = get_sweep_count_current(inst)]
    /\ pc' = IF get_sweep_count_current(inst) < args.sweeps THEN "poll" ELSE "read"
    /\ UNCHANGED <<inst, args, cmds, ret, entry>>
    /\ UNCHANGED notAcqVars

\* mutant: a failed read is tried again
ReadTrace_retry ==
    /\ pc = "read"
    /\ cmds' = Append(cmds, Cmd("TRACE?", 0, ""))
    /\ \E outcome \in ReadOutcomes :
          IF outcome # "ok"
          THEN /\ pc' = "read"
               /\ UNCHANGED <<ret, loc>>
          ELSE LET trace_data == get_trace(inst, Len(loc.segs), TRUE)
               IN  /\ pc' = "loop"
                   /\ ret' = ret
                   /\ loc' = [loc EXCEPT
                                !.trace_data = trace_data,
                                !.trace = @ \o AllButLast(trace_data.values),
                                !.start_f = @ + args.span]
    /\ UNCHANGED <<inst, args, entry>>
    /\ UNCHANGED notAcqVars

\* mutant: the cursor is not advanced after a segment
ReadTrace_stay ==
    /\ pc = "read"
    /\ cmds' = Append(cmds, Cmd("TRACE?", 0, ""))
    /\ \E outcome \in ReadOutcomes :
          IF outcome # "ok"
          THEN /\ pc' = "raised"
               /\ ret' = Raised(IF outcome = "ioerror" THEN "VisaIOError" ELSE "TypeError")
               /\ UNCHANGED loc
          ELSE LET trace_data == get_trace(inst, Len(loc.segs), TRUE)
               IN  /\ pc' = "loop"
                   /\ ret' = ret
                   /\ loc' = [loc EXCEPT
                                !.trace_data = trace_data,
                                !.trace = @ \o AllButLast(trace_data.values)]
    /\ UNCHANGED <<inst, args, entry>>
    /\ UNCHANGED notAcqVars

\* lines 366-370: read the trace, append all but its last point, advance
ReadTrace ==
    /\ pc = "read"
    /\ cmds' = Append(cmds, Cmd("TRACE?", 0, ""))
    /\ \E outcome \in ReadOutcomes :
          IF outcome = "ioerror"
          THEN /\ pc' = "raised"
               /\ ret' = Raised("VisaIOError")
               /\ UNCHANGED loc
          ELSE LET trace_data == get_trace(inst, Len(loc.segs), outcome = "ok")
               IN  IF trace_data.kind = "None"
                   THEN /\ pc' = "raised"
                        /\ ret' = Raised("TypeError")
                        /\ loc' = [loc EXCEPT !.trace_data = trace_data]
                   ELSE /\ pc' = "loop"
                        /\ ret' = ret
                        /\ loc' = [loc EXCEPT
                                     !.trace_data = trace_data,
                                     !.trace = @ \o AllButLast(trace_data.values),
                                     !.start_f = @ + args.span]
    /\ UNCHANGED <<inst, args, entry>>
    /\ UNCHANGED notAcqVars

\* mutant: the sweep count is not written back
restore_settings_nocount(i, l) == set_continuous_en(i, l.continuous_sweep)

\* lines 372-374: return to the original sweep settings
restore_settings(i, l) ==
    set_sweep_count(set_continuous_en(i, l.continuous_sweep), l.sweep_count)

\* lines 376-382: the endpoint, the frequency points, the filter
result_trace(i, l, a) ==
    LET trace == Append(l.trace, l.trace_data.values[Len(l.trace_data.values)])
        freq == linspace(a.start_freq, get_stop_freq(i), Len(trace))
    IN  filtered_trace(freq, trace, a.stop_freq)

\* lines 345, 372-382: the loop is over; restore, then build the result
Finish ==
    /\ pc = "loop"
    /\ ~(loc.start_f < args.stop_freq)
    /\ inst' = restore_settings(inst, loc)
    /\ cmds' = cmds \o set_continuous_en_cmds(loc.continuous_sweep)
                     \o set_sweep_count_cmds(loc.sweep_count)
    /\ IF loc.trace_data.kind = "Unbound"
       THEN pc' = "raised" /\ ret' = Raised("UnboundLocalError")
       ELSE IF Len(loc.trace_data.values) = 0
       THEN pc' = "raised" /\ ret' = Raised("IndexError")
       ELSE pc' = "returned" /\ ret' = Returned(result_trace(inst', loc, args))
    /\ UNCHANGED <<args, loc, entry>>
    /\ UNCHANGED notAcqVars

\* a call of get_trace_adv with arguments drawn from the input sets
CallAny ==
    \E a \in StartInputs, b \in StopInputs, s \in SpanInputs, n \in SweepsInputs :
        Call(a, b, s, n)



----------------------------------------------------------------------------
(* component/component.py: component *)

\* frequencies (MHz) at which the model evaluates the component splines
CompFreqs == {30, 100, 300, 1000}

\* a component: its name, its loss flag and its spline, given by its values
\* at CompFreqs (splrep with s=0 passes through the samples of the file)
Component(name, loss, f30, f100, f300, f1000) ==
    [name |-> name, loss |-> loss,
     tck |-> [f \in CompFreqs |->
                CASE f = 30 -> f30 [] f = 100 -> f100
                  [] f = 300 -> f300 [] f = 1000 -> f1000]]

Antenna == Component("Antenna factor", TRUE, 10, 12, 15, 18)
Cable == Component("Cable loss", TRUE, 1, 2, 3, 4)
Preamp == Component("Preamp gain", FALSE, 20, 21, 22, 23)
Components == {Antenna, Cable, Preamp}

\* get_factors: the spline evaluated at each frequency
get_factors(c, freq) == [k \in 1..Len(freq) |-> c.tck[freq[k]]]

\* trace.T[0] and trace.T[1]: the columns of an n x 2 array
Column(trace, j) == [k \in 1..Len(trace) |-> trace[k][j]]

\* mutant: the factor is added whatever the loss flag says
corrected_measurement_add(c, trace) ==
    LET tr0 == Column(trace, 1)
        tr1 == Column(trace, 2)
        gl == get_factors(c, tr0)
    IN  [k \in 1..Len(trace) |-> <<tr0[k], tr1[k] + gl[k]>>]

\* corrected_measurement: add a loss, subtract a gain
corrected_measurement(c, trace) ==
    LET tr0 == Column(trace, 1)
        tr1 == Column(trace, 2)
        gl == get_factors(c, tr0)
        corrected == [k \in 1..Len(trace) |->
                         IF c.loss THEN tr1[k] + gl[k] ELSE tr1[k] - gl[k]]
    IN  [k \in 1..Len(trace) |-> <<tr0[k], corrected[k]>>]

----------------------------------------------------------------------------
(* emc/limit.py: limit *)

\* limit_table: (low MHz, high MHz, uV/m(3m), dBuV/m(3m), uV/m(10m),
\* dBuV/m(10m)), the four values in tenths
limit_table ==
    [std \in {"fccclassa", "fccclassb", "cispr22classa", "cispr22classb"} |->
        CASE std = "fccclassa" ->
                <<<<30, 88, 3000, 496, 900, 391>>,
                  <<88, 216, 5000, 540, 1500, 435>>,
                  <<216, 960, 7000, 569, 2100, 464>>,
                  <<960, 10000, 10000, 600, 3000, 495>>>>
          [] std = "fccclassb" ->
                <<<<30, 88, 1000, 400, 300, 295>>,
                  <<88, 216, 1500, 435, 450, 331>>,
                  <<216, 960, 2000, 460, 600, 356>>,
                  <<960, 10000, 5000, 540, 1500, 435>>>>
          [] std = "cispr22classa" ->
                <<<<30, 230, 3333, 505, 1000, 400>>,
                  <<230, 1000, 7462, 575, 2239, 470>>>>
          [] std = "cispr22classb" ->
                <<<<30, 230, 1054, 405, 316, 300>>,
                  <<230, 1000, 2360, 475, 708, 370>>>>]

\* unit_index: the (0-based) position of a unit's value in a row
unit_index ==
    [u \in {"uV/m(3m)", "dBuV/m(3m)", "uV/m(10m)", "dBuV/m(10m)"} |->
        CASE u = "uV/m(3m)" -> 2 [] u = "dBuV/m(3m)" -> 3
          [] u = "uV/m(10m)" -> 4 [] u = "dBuV/m(10m)" -> 5]

\* l[j] for a 0-based j
Item(l, j) == l[j + 1]

\* mutant: the lower boundary of a row belongs to the row
in_row_closed(f, l) == f >= Item(l, 0) /\ f <= Item(l, 1)

\* np.logical_and(freq > l[0], freq <= l[1]) for one frequency
in_row(f, l) == f > Item(l, 0) /\ f <= Item(l, 1)

RECURSIVE apply_rows(_, _, _, _, _)
\* lines 40-41: each row in turn overwrites the entries of its range
apply_rows(limit_vec, rows, ui, freq, n) ==
    IF n > Len(rows) THEN limit_vec
    ELSE apply_rows([k \in 1..Len(freq) |->
                        IF in_row(freq[k], rows[n]) THEN Item(rows[n], ui)
                        ELSE limit_vec[k]],
                    rows, ui, freq, n + 1)

\* limit_func: KeyError for an unknown standard or unit, else the limits
limit_func(standard, units, freq) ==
    IF standard \notin DOMAIN limit_table \/ units \notin DOMAIN unit_index
    THEN Raised("KeyError")
    ELSE LET rows == limit_table[standard]
             ui == unit_index[units]
             zeros == [k \in 1..Len(freq) |-> 0]
             vec == apply_rows(zeros, rows, ui, freq, 1)
         IN  Returned([k \in 1..Len(freq) |->
                          IF freq[k] = Item(rows[1], 0) THEN Item(rows[1], ui)
                          ELSE vec[k]])

----------------------------------------------------------------------------
(* The two functions applied to inputs drawn from bounded sets *)

AmpInputs == {-5, 0, 5}
TraceRows == {<<f, a>> : f \in CompFreqs, a \in AmpInputs}

\* the sequences over S of length lo..hi
SeqsOf(S, lo, hi) == UNION {[1..n -> S] : n \in lo..hi}

TraceInputs == SeqsOf(TraceRows, 1, MaxTraceLen)

StandardInputs == (DOMAIN limit_table) \cup {"en55022"}
UnitInputs == (DOMAIN unit_index) \cup {"dBm"}
LimitFreqs == {10, 30, 31, 88, 216, 230, 500, 960, 1000, 1001, 10000, 10001}
FreqVecInputs == SeqsOf(LimitFreqs, 1, MaxVec)

NoComponent == Component("", TRUE, 0, 0, 0, 0)

FuncInput(op, comp, trace, standard, units, freq) ==
    [op |-> op, comp |-> comp, trace |-> trace,
     standard |-> standard, units |-> units, freq |-> freq, param |-> <<>>]

InitFunc ==
    /\ fin \in {FuncInput("component", c, t, "", "", <<>>) :
                    c \in Components, t \in TraceInputs}
               \cup {FuncInput("limit", NoComponent, <<>>, std, u, f) :
                    std \in StandardInputs, u \in UnitInputs, f \in FreqVecInputs}
    /\ fout = NoResult

\* c.corrected_measurement(trace)
ApplyComponent ==
    /\ fin.op = "component"
    /\ fout = NoResult
    /\ fout' = Returned(corrected_measurement(fin.comp, fin.trace))
    /\ UNCHANGED <<fin, acqVars, recVars, flow>>

\* l.limit_func(standard, units, freq)
ApplyLimit ==
    /\ fin.op = "limit"
    /\ fout = NoResult
    /\ fout' = limit_func(fin.standard, fin.units, fin.freq)
    /\ UNCHANGED <<fin, acqVars, recVars, flow>>

----------------------------------------------------------------------------
(* Python values, JSON and CSV text *)

\* a Python value: None, a bool, an int or a str
PyVal(t, b, i, s) == [t |-> t, b |-> b, i |-> i, s |-> s]
PyNone == PyVal("None", FALSE, 0, "")
PyBool(b) == PyVal("bool", b, 0, "")
PyInt(i) == PyVal("int", FALSE, i, "")
PyStr(s) == PyVal("str", FALSE, 0, s)
PyError == PyVal("error", FALSE, 0, "")

Digits == {"0", "1", "2", "3", "4", "5", "6", "7", "8", "9"}

DigitValue(c) ==
    CASE c = "0" -> 0 [] c = "1" -> 1 [] c = "2" -> 2 [] c = "3" -> 3
      [] c = "4" -> 4 [] c = "5" -> 5 [] c = "6" -> 6 [] c = "7" -> 7
      [] c = "8" -> 8 [] c = "9" -> 9

CharAt(text, k) == SubSeq(text, k, k)

\* text is one or more decimal digits
IsNat(text) ==
    /\ Len(text) > 0
    /\ \A k \in 1..Len(text) : CharAt(text, k) \in Digits

RECURSIVE NatOf(_, _)
\* the number written by the first n digits of text
NatOf(text, n) ==
    IF n = 0 THEN 0 ELSE 10 * NatOf(text, n - 1) + DigitValue(CharAt(text, n))

\* text is a decimal number with an optional minus sign
IsNumber(text) ==
    \/ IsNat(text)
    \/ Len(text) > 1 /\ CharAt(text, 1) = "-" /\ IsNat(SubSeq(text, 2, Len(text)))

\* the number text writes
NumberOf(text) ==
    IF CharAt(text, 1) = "-"
    THEN 0 - NatOf(SubSeq(text, 2, Len(text)), Len(text) - 1)
    ELSE NatOf(text, Len(text))

\* mutant: a string is written without its quotes
json_dumps_bare(v) ==
    CASE v.t = "str" -> v.s
      [] v.t = "int" -> ToString(v.i)
      [] v.t = "bool" -> (IF v.b THEN "true" ELSE "false")
      [] OTHER -> "null"

\* json.dumps of a Python value
json_dumps(v) ==
    CASE v.t = "str" -> "\"" \o v.s \o "\""
      [] v.t = "int" -> ToString(v.i)
      [] v.t = "bool" -> (IF v.b THEN "true" ELSE "false")
      [] OTHER -> "null"

\* json.loads of a text: PyError when the text is no JSON value
json_loads(text) ==
    IF text = "true" THEN PyBool(TRUE)
    ELSE IF text = "false" THEN PyBool(FALSE)
    ELSE IF text = "null" THEN PyNone
    ELSE IF Len(text) >= 2 /\ CharAt(text, 1) = "\"" /\ CharAt(text, Len(text)) = "\""
    THEN PyStr(SubSeq(text, 2, Len(text) - 1))
    ELSE IF IsNumber(text) THEN PyInt(NumberOf(text))
    ELSE PyError

\* the text csv.writer writes for a value: str(value), and "" for None
csv_text(v) ==
    CASE v.t = "str" -> v.s
      [] v.t = "int" -> ToString(v.i)
      [] v.t = "bool" -> (IF v.b THEN "True" ELSE "False")
      [] OTHER -> ""

----------------------------------------------------------------------------
(* rigol/dsa800.py: dsa800_config *)

\* a dict: the sequence of its <<key, value>> items in insertion order
DictKeys(d) == [k \in 1..Len(d) |-> d[k][1]]
DictValues(d) == [k \in 1..Len(d) |-> d[k][2]]

\* d[key] = value: an existing key keeps its place
DictSet(d, key, value) ==
    IF \E k \in 1..Len(d) : d[k][1] = key
    THEN [k \in 1..Len(d) |-> IF d[k][1] = key THEN <<key, value>> ELSE d[k]]
    ELSE Append(d, <<key, value>>)

RECURSIVE DictUpdate(_, _, _)
\* d.update(items), from the n-th item on
DictUpdate(d, items, n) ==
    IF n > Len(items) THEN d
    ELSE DictUpdate(DictSet(d, items[n][1], items[n][2]), items, n + 1)

\* an argument of the constructor: None, a dict, or a list of strings
ArgNone == [t |-> "None", items |-> <<>>]
ArgDict(d) == [t |-> "dict", items |-> d]
ArgList(l) == [t |-> "list", items |-> l]

\* the truth value of an argument: None and the empty dict or list are false
Truthy(a) == a.t # "None" /\ Len(a.items) > 0

\* lines 400-411: the default parameters
DefaultParam ==
    <<<<PyStr("data_format"), PyStr("ASCii")>>,
      <<PyStr("trace_mode"), PyStr("WRITe")>>,
      <<PyStr("sweep_points"), PyInt(601)>>,
      <<PyStr("preamp_en"), PyBool(FALSE)>>,
      <<PyStr("units"), PyStr("DBM")>>,
      <<PyStr("emi_filter_en"), PyBool(FALSE)>>,
      <<PyStr("rbw"), PyInt(100000)>>,
      <<PyStr("tg_en"), PyBool(FALSE)>>,
      <<PyStr("tg_amplitude"), PyInt(-40)>>,
      <<PyStr("det_func"), PyStr("POSitive")>>>>

ConfigOf(param) == [kind |-> "config", param |-> param, error |-> ""]
ConfigRaised(error) == [kind |-> "raised", param |-> <<>>, error |-> error]

\* dict(zip(key_list, value_list))
ZipDict(key_list, value_list) ==
    LET n == IF Len(key_list) < Len(value_list) THEN Len(key_list) ELSE Len(value_list)
    IN  DictUpdate(<<>>, [k \in 1..n |-> <<key_list[k], value_list[k]>>], 1)

\* the items dict.update takes from a list of strings: a string of two
\* characters is a key and a value, any other length is a ValueError
StringItems(l) == [k \in 1..Len(l) |-> <<PyStr(CharAt(l[k], 1)), PyStr(CharAt(l[k], 2))>>]

\* dsa800_config(param, json_keys, json_values)
dsa800_config(param, json_keys, json_values) ==
    IF Truthy(json_keys) /\ Truthy(json_values)
    THEN LET key_list == [k \in 1..Len(json_keys.items) |-> json_loads(json_keys.items[k])]
             value_list == [k \in 1..Len(json_values.items) |-> json_loads(json_values.items[k])]
         IN  IF \/ \E k \in 1..Len(key_list) : key_list[k] = PyError
                \/ \E k \in 1..Len(value_list) : value_list[k] = PyError
             THEN ConfigRaised("JSONDecodeError")
             ELSE ConfigOf(ZipDict(key_list, value_list))
    ELSE IF ~Truthy(param) THEN ConfigOf(DefaultParam)
    ELSE IF param.t = "dict" THEN ConfigOf(DictUpdate(DefaultParam, param.items, 1))
    ELSE IF \E k \in 1..Len(param.items) : Len(param.items[k]) # 2
    THEN ConfigRaised("ValueError")
    ELSE ConfigOf(DictUpdate(DefaultParam, StringItems(param.items), 1))

\* get_json_names, get_json_values
get_json_names(param) == [k \in 1..Len(param) |-> json_dumps(DictKeys(param)[k])]
get_json_values(param) == [k \in 1..Len(param) |-> json_dumps(DictValues(param)[k])]

\* the param dicts given to the constructor: up to MaxItems items
ParamInputs ==
    SeqsOf({<<k, v>> : k \in {PyStr("rbw"), PyStr("preamp_en"), PyStr("note")},
                       v \in {PyBool(TRUE), PyBool(FALSE), PyInt(1), PyInt(-40),
                              PyStr("1"), PyStr("true"), PyStr(""), PyNone}},
           0, MaxItems)

\* a configuration to build: from a param dict, or from lists of JSON texts
InitConfig ==
    /\ fin \in {[FuncInput(op, NoComponent, <<>>, "", "", <<>>) EXCEPT !.param = d] :
                    op \in {"config_param", "config_json"}, d \in ParamInputs}
    /\ fout = NoResult

\* c = dsa800_config(param=...) or dsa800_config(json_keys=..., json_values=...)
BuildConfig(op, items) ==
    IF op = "config_param"
    THEN dsa800_config(ArgDict(items), ArgNone, ArgNone)
    ELSE dsa800_config(ArgNone,
                       ArgList([k \in 1..Len(items) |-> json_dumps(items[k][1])]),
                       ArgList([k \in 1..Len(items) |-> json_dumps(items[k][2])]))

\* build c, then
\* dsa800_config(json_keys=c.get_json_names(), json_values=c.get_json_values())
ApplyConfig ==
    /\ fin.op \in {"config_param", "config_json"}
    /\ fout = NoResult
    /\ LET c == BuildConfig(fin.op, fin.param)
           rebuilt == dsa800_config(ArgNone, ArgList(get_json_names(c.param)),
                                             ArgList(get_json_values(c.param)))
       IN  fout' = Returned(<<c, rebuilt>>)
    /\ UNCHANGED <<fin, acqVars, recVars, flow>>

----------------------------------------------------------------------------
(* rigol/storage.py: Measurement *)

\* an attribute that holds None or a numpy array
NoneArr == [kind |-> "None", values |-> <<>>]
Arr(values) == [kind |-> "array", values |-> values]

Ok == Returned(<<>>)

\* no object
NoMeasurement ==
    [exists |-> FALSE, title |-> PyNone, config |-> <<>>,
     has_data |-> FALSE, data |-> <<>>, components |-> <<>>, lim |-> FALSE,
     corrected_data |-> NoneArr, limit_data |-> NoneArr]

\* lines 20-23: the attributes __init__ sets after either branch
init_tail(m) ==
    [m EXCEPT !.components = <<>>, !.lim = FALSE,
              !.corrected_data = NoneArr, !.limit_data = NoneArr]

\* Measurement(title, dsaconfig)
Measurement_new(title, dsaconfig) ==
    init_tail([NoMeasurement EXCEPT !.exists = TRUE, !.title = title,
                                    !.config = dsaconfig])

\* freq() and measured()
freq(m) == Column(m.data, 1)
measured(m) == Column(m.data, 2)

\* the truth value Python gives "if x:" for None or an array: an array of
\* more than one element has none (ValueError)
truth(a) ==
    IF a.kind = "None" \/ Len(a.values) = 0 THEN "false"
    ELSE IF Len(a.values) > 1 THEN "raise"
    ELSE IF a.values[1] # 0 THEN "true" ELSE "false"

\* mutant: every component corrects the raw data; the last one wins
correct_chain_raw(corrected, comps, n) ==
    IF Len(comps) = 0 THEN corrected
    ELSE corrected_measurement(comps[Len(comps)], corrected)

RECURSIVE correct_chain(_, _, _)
\* lines 37-38: each component corrects the previous stage's output
correct_chain(corrected, comps, n) ==
    IF n > Len(comps) THEN corrected
    ELSE correct_chain(corrected_measurement(comps[n], corrected), comps, n + 1)

\* corrected()
corrected(m) ==
    IF truth(m.corrected_data) = "raise" THEN Raised("ValueError")
    ELSE IF truth(m.corrected_data) = "true" THEN Returned(m.corrected_data.values)
    ELSE IF ~m.has_data THEN Raised("AttributeError")
    ELSE Returned(Column(correct_chain(m.data, m.components, 1), 2))

\* a call l.limit_func(*argv) of emc.limit.limit: three arguments are needed
limit_func_call(argv) ==
    IF Len(argv) # 3 THEN Raised("TypeError")
    ELSE limit_func(argv[1], argv[2], argv[3])

\* limit()
limit(m) ==
    IF truth(m.limit_data) = "raise" THEN Raised("ValueError")
    ELSE IF truth(m.limit_data) = "true" THEN Returned(m.limit_data.values)
    ELSE IF ~m.lim THEN Raised("AttributeError")
    ELSE IF ~m.has_data THEN Raised("AttributeError")
    ELSE limit_func_call(<<freq(m)>>)

\* add_trace, add_component, add_limit
add_trace(m, trace) == [m EXCEPT !.has_data = TRUE, !.data = trace]
add_component(m, comp) == [m EXCEPT !.components = Append(@, comp)]
add_limit(m) == [m EXCEPT !.lim = TRUE]

\* the file: the rows of text it holds, and the Measurement save_to_csv
\* wrote them from (NoMeasurement for a file of another origin)
NoFile == [exists |-> FALSE, lines |-> <<>>, saved |-> NoMeasurement, complete |-> FALSE]
FileOf(lines, saved, complete) ==
    [exists |-> TRUE, lines |-> lines, saved |-> saved, complete |-> complete]

\* np.array(columns).T written by writerows: one row of text per point
TextRows(columns, npoints) ==
    [k \in 1..npoints |-> [j \in 1..Len(columns) |-> ToString(columns[j][k])]]

\* save_to_csv: the outcome and the rows written before it
save_to_csv(m) ==
    LET head == <<<<csv_text(m.title)>>,
                  get_json_names(m.config), get_json_values(m.config)>>
        n == Len(m.components)
        cor == IF n > 0 /\ m.has_data THEN corrected(m) ELSE Ok
        lim == IF m.lim /\ m.has_data /\ cor.kind # "raised" THEN limit(m) ELSE Ok
        headings == <<"Frequency (Hz)", "DSA">>
                    \o [k \in 1..n |-> m.components[k].name]
                    \o (IF n > 0 THEN <<"Corrected">> ELSE <<>>)
                    \o (IF m.lim THEN <<"Limit">> ELSE <<>>)
        columns == <<freq(m), measured(m)>>
                   \o [k \in 1..n |-> get_factors(m.components[k], freq(m))]
                   \o (IF n > 0 THEN <<cor.rows>> ELSE <<>>)
                   \o (IF m.lim THEN <<lim.rows>> ELSE <<>>)
    IN  IF ~m.has_data THEN [result |-> Raised("AttributeError"), lines |-> head]
        ELSE IF cor.kind = "raised" THEN [result |-> cor, lines |-> head]
        ELSE IF lim.kind = "raised" THEN [result |-> lim, lines |-> head]
        ELSE [result |-> Ok,
              lines |-> head \o <<headings>> \o TextRows(columns, Len(m.data))]

\* heading_index[name]: the (0-based) position of the last heading so named
heading_index(headings, name) ==
    (CHOOSE k \in 1..Len(headings) :
        /\ headings[k] = name
        /\ \A j \in (k + 1)..Len(headings) : headings[j] # name) - 1

LoadRaised(error) == [result |-> Raised(error), m |-> NoMeasurement]

\* load_csv: the attributes it sets, or the error it raises
load_csv(f) ==
    IF ~f.exists THEN LoadRaised("FileNotFoundError")
    ELSE IF Len(f.lines) < 1 THEN LoadRaised("StopIteration")
    ELSE IF Len(f.lines[1]) = 0 THEN LoadRaised("IndexError")
    ELSE IF Len(f.lines) < 3 THEN LoadRaised("StopIteration")
    ELSE LET config == dsa800_config(ArgList(f.lines[2]), ArgList(f.lines[3]), ArgNone)
         IN  IF config.kind = "raised" THEN LoadRaised(config.error)
             ELSE IF Len(f.lines) < 4 THEN LoadRaised("StopIteration")
             ELSE
    LET headings == f.lines[4]
        body == SubSeq(f.lines, 5, Len(f.lines))
        numeric == \A k \in 1..Len(body) : \A j \in 1..Len(body[k]) : IsNumber(body[k][j])
        ragged == \E k \in 1..Len(body) : Len(body[k]) # Len(body[1])
        data == [k \in 1..Len(body) |-> [j \in 1..Len(body[k]) |-> NumberOf(body[k][j])]]
        has(name) == \E k \in 1..Len(headings) : headings[k] = name
        inside(name) == Len(body) > 0 /\ heading_index(headings, name) < Len(body[1])
        col(name) == Column(data, heading_index(headings, name) + 1)
    IN  IF ~numeric \/ ragged THEN LoadRaised("ValueError")
        ELSE IF ~has("Corrected") THEN LoadRaised("KeyError")
        ELSE IF ~inside("Corrected") THEN LoadRaised("IndexError")
        ELSE IF ~has("Limit") THEN LoadRaised("KeyError")
        ELSE IF ~inside("Limit") THEN LoadRaised("IndexError")
        ELSE [result |-> Ok,
              m |-> [NoMeasurement EXCEPT
                        !.exists = TRUE,
                        !.title = PyStr(f.lines[1][1]),
                        !.config = config.param,
                        !.has_data = TRUE,
                        !.data = data,
                        !.corrected_data = Arr(col("Corrected")),
                        !.limit_data = Arr(col("Limit"))]]

\* Measurement(filename=...): load_csv, then lines 20-23
Measurement_from_file(f) ==
    LET l == load_csv(f)
    IN  IF l.result.kind = "raised" THEN l
        ELSE [result |-> Ok, m |-> init_tail(l.m)]

----------------------------------------------------------------------------
(* Measurement objects under the operations of their class *)

TitleInputs == {PyStr("Product X Radiated Emissions"), PyNone}

\* adv_trace.py lines 49-55: the script's dsa_cfg
ScriptParam ==
    <<<<PyStr("trace_mode"), PyStr("MAXHold")>>,
      <<PyStr("preamp_en"), PyBool(TRUE)>>,
      <<PyStr("units"), PyStr("DBUV")>>,
      <<PyStr("emi_filter_en"), PyBool(TRUE)>>,
      <<PyStr("rbw"), PyInt(120000)>>>>

ConfigInputs ==
    {dsa800_config(ArgNone, ArgNone, ArgNone).param,
     dsa800_config(ArgDict(ScriptParam), ArgNone, ArgNone).param}

ExampleTrace == <<<<30, 5>>, <<100, 5>>, <<300, 5>>, <<1000, 5>>>>

RecTraceInputs ==
    {ExampleTrace} \cup {<<<<30, a>>, <<100, b>>>> : a, b \in {-5, 5}}

RecComponents == {Antenna, Preamp}

\* a file in the record format that carries the Corrected and Limit columns
ExternalLines(keys, values) ==
    <<<<"Legacy">>, keys, values,
      <<"Frequency (Hz)", "DSA", "Antenna factor", "Corrected", "Limit">>,
      <<"30", "5", "10", "15", "405">>,
      <<"100", "5", "12", "17", "405">>>>

ExternalFiles ==
    {FileOf(ExternalLines(<<>>, <<>>), NoMeasurement, TRUE),
     FileOf(ExternalLines(<<"\"\"">>, <<"1">>), NoMeasurement, TRUE),
     FileOf(ExternalLines(get_json_names(DefaultParam), get_json_values(DefaultParam)),
            NoMeasurement, TRUE)}

Targets == {"rec", "loaded"}
Obj(t) == IF t = "rec" THEN rec ELSE loaded

Outcome(op, target, result) == [op |-> op, target |-> target, result |-> result]
NoOutcome == Outcome("", "", NoResult)

\* the object t becomes m
Becomes(t, m) ==
    /\ rec' = IF t = "rec" THEN m ELSE rec
    /\ loaded' = IF t = "loaded" THEN m ELSE loaded

InitRec ==
    /\ rec = NoMeasurement
    /\ loaded = NoMeasurement
    /\ file \in {NoFile} \cup ExternalFiles
    /\ out = NoOutcome

\* the record is assembled first and is read-only once it has been saved
Assembling(t) == t = "rec" => ~file.exists

\* Measurement(title, dsaconfig), in a session that starts without a file
NewMeasurement ==
    /\ ~rec.exists
    /\ ~file.exists
    /\ \E title \in TitleInputs, config \in ConfigInputs :
          rec' = Measurement_new(title, config)
    /\ out' = NoOutcome
    /\ UNCHANGED <<loaded, file, acqVars, funcVars, flow>>

\* m.add_trace(trace); an object receives its trace once
AddTrace ==
    \E t \in Targets, trace \in RecTraceInputs :
        /\ Obj(t).exists
        /\ Assembling(t)
        /\ ~Obj(t).has_data
        /\ Becomes(t, add_trace(Obj(t), trace))
        /\ out' = NoOutcome
        /\ UNCHANGED <<file, acqVars, funcVars, flow>>

\* m.add_component(comp)
AddComponent ==
    \E t \in Targets, comp \in RecComponents :
        /\ Obj(t).exists
        /\ Assembling(t)
        /\ Len(Obj(t).components) < MaxChain
        /\ Becomes(t, add_component(Obj(t), comp))
        /\ out' = NoOutcome
        /\ UNCHANGED <<file, acqVars, funcVars, flow>>

\* m.add_limit(limit())
AddLimit ==
    \E t \in Targets :
        /\ Obj(t).exists
        /\ Assembling(t)
        /\ ~Obj(t).lim
        /\ Becomes(t, add_limit(Obj(t)))
        /\ out' = NoOutcome
        /\ UNCHANGED <<file, acqVars, funcVars, flow>>

\* rec.save_to_csv(filename)
SaveToCsv ==
    /\ rec.exists
    /\ LET w == save_to_csv(rec)
       IN  /\ file' = FileOf(w.lines, rec, w.result.kind # "raised")
           /\ out' = Outcome("save_to_csv", "rec", w.result)
    /\ UNCHANGED <<rec, loaded, acqVars, funcVars, flow>>

\* loaded = Measurement(filename=...)
LoadMeasurement ==
    /\ ~loaded.exists
    /\ LET l == Measurement_from_file(file)
       IN  /\ loaded' = l.m
           /\ out' = Outcome("load", "loaded", l.result)
    /\ UNCHANGED <<rec, file, acqVars, funcVars, flow>>

\* m.corrected()
CallCorrected ==
    \E t \in Targets :
        /\ Obj(t).exists
        /\ out' = Outcome("corrected", t, corrected(Obj(t)))
        /\ UNCHANGED <<rec, loaded, file, acqVars, funcVars, flow>>

\* m.limit()
CallLimit ==
    \E t \in Targets :
        /\ Obj(t).exists
        /\ out' = Outcome("limit", t, limit(Obj(t)))
        /\ UNCHANGED <<rec, loaded, file, acqVars, funcVars, flow>>

----------------------------------------------------------------------------
(* adv_trace.py: the measurement script, up to the step that ends it *)

\* limit.limit(*argv): __init__ takes no argument besides self
limit_new(argv) ==
    IF Len(argv) # 0 THEN Raised("TypeError") ELSE Ok

\* lines 38-56: the parameters written when params.txt is missing
DefaultParams ==
    [limit_std |-> "cispr22classb", limit_units |-> "dBuV/m(3m)",
     span |-> 100, sweeps |-> 10]

\* the parameters params.txt may hold
FileParams ==
    [limit_std : StandardInputs, limit_units : UnitInputs,
     span : {50, 100}, sweeps : 1..MaxSweeps]

FlowAt(at, params, error, commands) ==
    [at |-> at, params |-> params, error |-> error, commands |-> commands]

InitFlow == flow = FlowAt("start", DefaultParams, "", 0)

\* lines 31-58: the parameters, from params.txt or the defaults
LoadParams ==
    /\ flow.at = "start"
    /\ \E params \in FileParams \cup {DefaultParams} :
          flow' = FlowAt("params", params, "", 0)
    /\ UNCHANGED <<acqVars, funcVars, recVars>>

\* line 61: dsa800.dsa800()
CreateDsa ==
    /\ flow.at = "params"
    /\ flow' = [flow EXCEPT !.at = "dsa"]
    /\ UNCHANGED <<acqVars, funcVars, recVars>>

\* line 64: the antenna component, from its file
CreateAntenna ==
    /\ flow.at = "dsa"
    /\ \E error \in {"", "FileNotFoundError"} :
          flow' = [flow EXCEPT !.at = IF error = "" THEN "antenna" ELSE "raised at antenna",
                               !.error = error]
    /\ UNCHANGED <<acqVars, funcVars, recVars>>

\* line 65: the cable component, from its file
CreateCable ==
    /\ flow.at = "antenna"
    /\ \E error \in {"", "FileNotFoundError"} :
          flow' = [flow EXCEPT !.at = IF error = "" THEN "cable" ELSE "raised at cable",
                               !.error = error]
    /\ UNCHANGED <<acqVars, funcVars, recVars>>

\* line 68: lim = limit.limit(params['limit_std'], params['limit_units'])
BuildLimit ==
    /\ flow.at = "cable"
    /\ LET lim == limit_new(<<flow.params.limit_std, flow.params.limit_units>>)
       IN  flow' = [flow EXCEPT !.at = IF lim.kind = "raised" THEN "raised at limit"
                                       ELSE "limit",
                                !.error = lim.error]
    /\ UNCHANGED <<acqVars, funcVars, recVars>>

----------------------------------------------------------------------------
(* Specification of the acquisition *)

IdleAcq ==
    /\ inst = None /\ pc = None /\ args = None /\ loc = None
    /\ cmds = None /\ ret = None /\ entry = None

IdleFunc == fin = None /\ fout = None

IdleRec == rec = None /\ loaded = None /\ file = None /\ out = None

IdleFlow == flow = None

Init == InitAcq /\ IdleFunc /\ IdleRec /\ IdleFlow

Next ==
    \/ CallAny
    \/ SegmentSetup
    \/ InstrumentSweep
    \/ Poll
    \/ ReadTrace
    \/ Finish

Spec == Init /\ [][Next]_vars

\* the call runs on (Python executes its next statement, time.sleep returns)
\* and the instrument goes on with the sweeps of a triggered single sweep
Fairness ==
    /\ WF_vars(SegmentSetup \/ Poll \/ ReadTrace \/ Finish)
    /\ WF_vars(InstrumentSweep)

SpecLive == Init /\ [][Next]_vars /\ Fairness

----------------------------------------------------------------------------
(* Specification of the pure functions *)

InitF == (InitFunc \/ InitConfig) /\ IdleAcq /\ IdleRec /\ IdleFlow

NextF ==
    \/ ApplyComponent
    \/ ApplyLimit
    \/ ApplyConfig

SpecFunc == InitF /\ [][NextF]_vars

----------------------------------------------------------------------------
(* Specification of the Measurement objects *)

InitR == InitRec /\ IdleAcq /\ IdleFunc /\ IdleFlow

NextR ==
    \/ NewMeasurement
    \/ AddTrace
    \/ AddComponent
    \/ AddLimit
    \/ SaveToCsv
    \/ LoadMeasurement
    \/ CallCorrected
    \/ CallLimit

SpecRecord == InitR /\ [][NextR]_vars

----------------------------------------------------------------------------
(* Specification of the measurement script *)

InitS == InitFlow /\ IdleAcq /\ IdleFunc /\ IdleRec

NextS ==
    \/ LoadParams
    \/ CreateDsa
    \/ CreateAntenna
    \/ CreateCable
    \/ BuildLimit

SpecFlow == InitS /\ [][NextS]_vars

----------------------------------------------------------------------------
(* Claims about get_trace_adv *)

\* the number of segments acquired by the call
Segments == Len(loc.segs)

\* the frequency of a returned row, and the returned rows
RowFreq(row) == row[1]
Rows == ret.rows

\* C1: every frequency of a returned trace is strictly less than the
\* requested stop_freq, also when the range is not a multiple of span and
\* the last segment was programmed past stop_freq.
C1_BelowStop ==
    pc = "returned" =>
        \A k \in 1..Len(Rows) :
            RowFreq(Rows[k])[1] < args.stop_freq * RowFreq(Rows[k])[2]

\* C1 witness: a returned call over a non-divisible range whose last segment
\* overshot stop_freq and lost reconstructed points to the filter.
C1_Witness ==
    /\ pc = "returned"
    /\ (args.stop_freq - args.start_freq) % args.span # 0
    /\ loc.segs[Segments][2] > args.stop_freq
    /\ inst.stop_freq > args.stop_freq
    /\ Len(Rows) > 0
    /\ Len(Rows) < Len(loc.trace) + 1

\* the case of C2: a range exactly divisible by span, acquired as N segments,
\* whose final reported stop frequency equals stop_freq
C2_Case ==
    /\ pc = "returned"
    /\ args.start_freq < args.stop_freq
    /\ (args.stop_freq - args.start_freq) % args.span = 0
    /\ Segments = (args.stop_freq - args.start_freq) \div args.span
    /\ get_stop_freq(inst) = args.stop_freq

\* C2 (as stated): the returned trace has N x P - (N - 1) + 1 points.
C2_Original ==
    C2_Case =>
        Len(Rows) = Segments * inst.sweep_points - (Segments - 1) + 1

\* C2 (amended): for P >= 2 the returned trace has N x P - N points: every
\* segment's last point is dropped, the final endpoint is restored, and that
\* endpoint, whose frequency equals stop_freq, is removed by the filter.
C2_PointCount ==
    (C2_Case /\ inst.sweep_points >= 2) =>
        /\ Len(loc.trace) = Segments * (inst.sweep_points - 1)
        /\ Len(Rows) = Segments * inst.sweep_points - Segments
        /\ \A k \in 1..Len(Rows) : Rows[k][2] = loc.trace[k]

\* C2 witness: two or more segments of two or more points each.
C2_Witness ==
    /\ C2_Case
    /\ Segments >= 2
    /\ inst.sweep_points >= 2
    /\ Len(Rows) = Segments * inst.sweep_points - Segments

\* C3: the frequency column of a returned trace is strictly increasing,
\* given start_freq < the reported final stop frequency.
C3_StrictlyIncreasing ==
    (pc = "returned" /\ args.start_freq < get_stop_freq(inst)) =>
        \A k \in 1..(Len(Rows) - 1) :
            RowFreq(Rows[k])[1] * RowFreq(Rows[k + 1])[2]
                < RowFreq(Rows[k + 1])[1] * RowFreq(Rows[k])[2]

\* C3 witness: a returned trace that spans an internal segment boundary.
C3_Witness ==
    /\ pc = "returned"
    /\ args.start_freq < get_stop_freq(inst)
    /\ Segments >= 2
    /\ \E k \in 1..(Len(Rows) - 1) : Rows[k][2][1] # Rows[k + 1][2][1]

\* C4: when get_trace_adv returns, continuous sweep and sweep count are what
\* they were when it was called.
C4_SettingsRestored ==
    pc = "returned" =>
        /\ inst.continuous = entry.continuous
        /\ inst.sweep_count = entry.sweep_count

\* C4 witness: a returned call that had switched continuous sweep off and
\* written another sweep count.
C4_Witness ==
    /\ pc = "returned"
    /\ entry.continuous
    /\ sweep_count_ok(args.sweeps)
    /\ args.sweeps # entry.sweep_count
    /\ Segments >= 2

\* the positions of the log that hold a command of the given name
Logged(name) == {j \in 1..Len(cmds) : cmds[j].name = name}

\* C13: every single-sweep trigger of get_trace_adv is preceded, in the same
\* iteration (before the segment's start and stop are programmed), by a write
\* of the trace mode; there is one such write per segment and the mode written
\* is always the one read before the loop.
C13_ModeReissued ==
    pc # "idle" =>
        /\ loc.trace_mode = TRACE_MODE[entry.trace_mode]
        /\ \A j \in Logged("INIT") :
              /\ j > 3
              /\ cmds[j - 3] = Cmd("MODE", 0, loc.trace_mode)
              /\ cmds[j - 2].name = "START"
              /\ cmds[j - 1].name = "STOP"
        /\ \A j \in Logged("MODE") : cmds[j].text = loc.trace_mode
        /\ Cardinality(Logged("MODE")) = Segments
        /\ Cardinality(Logged("INIT")) = Segments

\* C13 witness: a returned call of two or more segments on an instrument in
\* max-hold mode, each segment triggered after a write of MAXHold.
C13_Witness ==
    /\ pc = "returned"
    /\ entry.trace_mode = "MAXH"
    /\ Segments >= 2
    /\ Cardinality({j \in Logged("INIT") : cmds[j - 3] = Cmd("MODE", 0, "MAXHold")}) >= 2

\* the segments whose trace has been read: all that were programmed, but the
\* current one while it is awaited or after the call has raised in it
Acquired ==
    IF pc \in {"idle", "loop", "returned"} \/ ret = Raised("UnboundLocalError")
    THEN Segments
    ELSE Segments - 1

\* the trace queries that failed: at most the one that ended the call
FailedReads ==
    IF ret \in {Raised("VisaIOError"), Raised("TypeError")} THEN 1 ELSE 0

\* this step queries the trace buffer
TraceQueried ==
    /\ Len(cmds') = Len(cmds) + 1
    /\ cmds'[Len(cmds')].name = "TRACE?"

\* C14: the trace buffer is queried only when the segment's start and stop
\* have been programmed and its single sweep triggered, and the last
\* completed-sweeps count the instrument reported is at least the requested
\* sweeps; one trace buffer is queried per segment acquired, and besides
\* those only the query whose failure ended the call.
C14_ReadAfterSweeps ==
    /\ [][TraceQueried =>
            /\ Segments >= 1
            /\ Len(cmds) >= 3
            /\ cmds[Len(cmds) - 2] = Cmd("START", loc.segs[Segments][1], "")
            /\ cmds[Len(cmds) - 1] = Cmd("STOP", loc.segs[Segments][2], "")
            /\ cmds[Len(cmds)] = Cmd("INIT", 0, "")
            /\ loc.sweep_current >= args.sweeps
            /\ get_sweep_count_current(inst) >= args.sweeps]_vars
    /\ [](Cardinality(Logged("TRACE?")) = Acquired + FailedReads)

\* C14 witness: a returned call of two or more segments of two sweeps each,
\* with one trace query per segment, each right after its trigger.
C14_Witness ==
    /\ pc = "returned"
    /\ Segments >= 2
    /\ args.sweeps = 2
    /\ loc.sweep_current = 2
    /\ Cardinality(Logged("TRACE?")) = Segments
    /\ \A j \in Logged("TRACE?") : cmds[j - 1].name = "INIT"

\* C15: a trace query either yields an array, and the call goes on, or it
\* fails (an instrument error, or parse_ascii returning None) and the call ends
\* with an error: nothing is returned, the partial trace is not extended, and
\* from then on the call issues no command and acquires no segment.
C15_FailedReadAborts ==
    /\ [][TraceQueried =>
            \/ /\ pc' = "loop"
               /\ loc'.trace_data.kind = "array"
               /\ ret' = ret
            \/ /\ pc' = "raised"
               /\ ret' \in {Raised("VisaIOError"), Raised("TypeError")}
               /\ loc'.trace = loc.trace
               /\ loc'.segs = loc.segs]_vars
    /\ [][pc = "raised" =>
            (pc' = "raised" /\ ret' = ret /\ cmds' = cmds /\ loc' = loc)]_vars
    /\ [](loc.trace_data.kind = "None" =>
            (pc = "raised" /\ ret = Raised("TypeError")))

\* C15 witness: the second segment's buffer does not start with #9; the call
\* has raised with the first segment's points accumulated and range left.
C15_Witness ==
    /\ pc = "raised"
    /\ ret = Raised("TypeError")
    /\ loc.trace_data.kind = "None"
    /\ Segments = 2
    /\ Len(loc.trace) > 0
    /\ loc.start_f < args.stop_freq
    /\ cmds[Len(cmds)].name = "TRACE?"

\* the case of C16: a running or ended call with span > 0, start_freq <
\* stop_freq and sweeps in 1..9999
C16_Given ==
    /\ pc # "idle"
    /\ args.span > 0
    /\ args.start_freq < args.stop_freq
    /\ sweep_count_ok(args.sweeps)

\* ceil((stop_freq - start_freq) / span)
SegmentsNeeded ==
    (args.stop_freq - args.start_freq + args.span - 1) \div args.span

\* segment k (from 0) was programmed with start_freq + k*span and
\* start_freq + (k+1)*span, for every segment programmed so far
SegmentsInOrder ==
    /\ \A k \in 1..Segments :
          loc.segs[k] = <<args.start_freq + (k - 1) * args.span,
                          args.start_freq + k * args.span>>
    /\ \A j \in Logged("START") :
          cmds[j].num = args.start_freq + (Cardinality({i \in Logged("START") : i < j}))
                                              * args.span

C17_Given ==
    /\ pc # "idle"
    /\ args.start_freq < args.stop_freq
    /\ ~sweep_count_ok(args.sweeps)

\* C17: a call with sweeps outside 1..9999 writes no sweep count before the
\* loop and leaves the instrument's sweep count as it was, raises no error
\* (other than through a failed trace read), and queries the trace only once
\* the instrument has reported at least sweeps completed sweeps.
C17_OutOfRangeSweeps ==
    /\ [](C17_Given =>
            /\ inst.sweep_count = entry.sweep_count
            /\ \A j \in Logged("COUNT") : cmds[j].num = entry.sweep_count
            /\ pc = "raised" =>
                  ret \in {Raised("VisaIOError"), Raised("TypeError")})
    /\ [][(C17_Given /\ TraceQueried) =>
            get_sweep_count_current(inst) >= args.sweeps]_vars

----------------------------------------------------------------------------
(* Claims about the component correction and the limit lookup *)

\* C5: corrected_measurement returns amplitude + factor for a loss component
\* and amplitude - factor for a gain component, and the frequency column
\* unchanged.
C5_SignCorrect ==
    (fin.op = "component" /\ fout.kind = "returned") =>
        /\ Len(fout.rows) = Len(fin.trace)
        /\ \A k \in 1..Len(fin.trace) :
              LET f == fin.trace[k][1]
                  x == fin.trace[k][2]
              IN  /\ fout.rows[k][1] = f
                  /\ fin.comp.loss => fout.rows[k][2] = x + fin.comp.tck[f]
                  /\ ~fin.comp.loss => fout.rows[k][2] = x - fin.comp.tck[f]

\* C5 witness: a gain component applied to a trace of two points.
C5_Witness ==
    /\ fin.op = "component"
    /\ fout.kind = "returned"
    /\ ~fin.comp.loss
    /\ Len(fin.trace) = 2
    /\ fout.rows[1][2] = fin.trace[1][2] - fin.comp.tck[fin.trace[1][1]]

\* the rows of a standard that contain f in (low, high]
RowsHolding(standard, f) ==
    {n \in 1..Len(limit_table[standard]) :
        limit_table[standard][n][1] < f /\ f <= limit_table[standard][n][2]}

\* C9: the lookup returns the unit's column of the row with low < f <= high,
\* the first row's value at the lowest boundary, and 0 below the lowest and
\* above the highest boundary; cispr22classb in dBuV/m(3m) is 40.5 at 30e6,
\* 47.5 at 500e6 and 0 at 10e6.
C9_LimitLookup ==
    (fin.op = "limit" /\ fin.standard \in DOMAIN limit_table
                      /\ fin.units \in DOMAIN unit_index
                      /\ fout # NoResult) =>
        /\ fout.kind = "returned"
        /\ Len(fout.rows) = Len(fin.freq)
        /\ \A k \in 1..Len(fin.freq) :
              LET f == fin.freq[k]
                  rows == limit_table[fin.standard]
                  col == unit_index[fin.units] + 1
              IN  /\ \A n \in RowsHolding(fin.standard, f) :
                        fout.rows[k] = rows[n][col]
                  /\ f = rows[1][1] => fout.rows[k] = rows[1][col]
                  /\ (f < rows[1][1] \/ f > rows[Len(rows)][2]) => fout.rows[k] = 0
                  /\ (fin.standard = "cispr22classb" /\ fin.units = "dBuV/m(3m)") =>
                        /\ f = 30 => fout.rows[k] = 405
                        /\ f = 500 => fout.rows[k] = 475
                        /\ f = 10 => fout.rows[k] = 0

\* C9 witness: cispr22classb in dBuV/m(3m) looked up at the internal boundary
\* 230e6 and at the lowest boundary 30e6.
C9_Witness ==
    /\ fin.op = "limit"
    /\ fin.standard = "cispr22classb"
    /\ fin.units = "dBuV/m(3m)"
    /\ fin.freq = <<230, 30>>
    /\ fout = Returned(<<405, 405>>)

----------------------------------------------------------------------------
(* Claims about dsa800_config *)

\* C11: a configuration rebuilt from its own JSON names and JSON values has
\* the same keys in the same order and the same values with the same types.
C11_ConfigRoundTrip ==
    (fin.op \in {"config_param", "config_json"} /\ fout.kind = "returned") =>
        LET c == fout.rows[1]
            r == fout.rows[2]
        IN  /\ c.kind = "config"
            /\ r.kind = "config"
            /\ Len(r.param) = Len(c.param)
            /\ \A k \in 1..Len(c.param) :
                  /\ r.param[k][1] = c.param[k][1]
                  /\ r.param[k][2].t = c.param[k][2].t
                  /\ r.param[k][2] = c.param[k][2]

\* C11 witness: a configuration whose rbw is the string "1" and that has a new
\* key holding a boolean, rebuilt with both types kept.
C11_Witness ==
    /\ fin.op = "config_param"
    /\ fin.param = <<<<PyStr("rbw"), PyStr("1")>>, <<PyStr("note"), PyBool(TRUE)>>>>
    /\ fout.kind = "returned"
    /\ Len(fout.rows[2].param) = Len(DefaultParam) + 1
    /\ fout.rows[2].param[7] = <<PyStr("rbw"), PyStr("1")>>
    /\ fout.rows[2].param[11] = <<PyStr("note"), PyBool(TRUE)>>

----------------------------------------------------------------------------
(* Claims about the Measurement record *)

RECURSIVE StageOutput(_, _, _, _)
\* the amplitudes after the first n components: a loss is added, a gain is
\* subtracted, each at the point's frequency
StageOutput(freqs, amps, comps, n) ==
    IF n = 0 THEN amps
    ELSE LET prev == StageOutput(freqs, amps, comps, n - 1)
         IN  [k \in 1..Len(amps) |->
                 IF comps[n].loss THEN prev[k] + comps[n].tck[freqs[k]]
                 ELSE prev[k] - comps[n].tck[freqs[k]]]

\* C6: for a record assembled with add_trace and add_component, corrected()
\* is the raw amplitudes passed through every component in the order added;
\* without components it is the raw amplitudes; 5,5,5,5 with the loss factors
\* 10,12,15,18 gives 15,17,20,23.
C6_CorrectedChain ==
    (out.op = "corrected" /\ out.target = "rec" /\ rec.has_data) =>
        LET freqs == [k \in 1..Len(rec.data) |-> rec.data[k][1]]
            amps == [k \in 1..Len(rec.data) |-> rec.data[k][2]]
        IN  /\ out.result = Returned(StageOutput(freqs, amps, rec.components,
                                                 Len(rec.components)))
            /\ rec.components = <<>> => out.result = Returned(amps)
            /\ (rec.data = ExampleTrace /\ rec.components = <<Antenna>>) =>
                  out.result = Returned(<<15, 17, 20, 23>>)

\* C6 witness: the example trace corrected by the antenna and then the preamp.
C6_Witness ==
    /\ out.op = "corrected"
    /\ out.target = "rec"
    /\ rec.data = ExampleTrace
    /\ rec.components = <<Antenna, Preamp>>
    /\ out.result = Returned(<<-5, -4, -2, 0>>)

\* the numbers of the column of the file headed name
StoredColumn(name) ==
    LET idx == CHOOSE k \in 1..Len(file.lines[4]) : file.lines[4][k] = name
    IN  [r \in 1..(Len(file.lines) - 4) |-> NumberOf(file.lines[r + 4][idx])]

\* C7: for a Measurement constructed from a file that carries the Corrected
\* and Limit columns, corrected() and limit() return the stored columns,
\* whatever is attached after loading.
C7_StoredColumns ==
    (out.target = "loaded" /\ loaded.exists) =>
        /\ out.op = "corrected" => out.result = Returned(StoredColumn("Corrected"))
        /\ out.op = "limit" => out.result = Returned(StoredColumn("Limit"))

\* C8: every record written by save_to_csv is loaded without error by
\* Measurement(filename=...), which reproduces its title, its configuration
\* and its numeric columns.
C8_RoundTrip ==
    (out.op = "load" /\ file.complete /\ file.saved.exists) =>
        /\ out.result = Ok
        /\ loaded.title = file.saved.title
        /\ loaded.config = file.saved.config
        /\ freq(loaded) = freq(file.saved)
        /\ measured(loaded) = measured(file.saved)

\* the header row the claim describes for the record
ExpectedHeadings ==
    <<"Frequency (Hz)", "DSA">>
    \o [k \in 1..Len(rec.components) |-> rec.components[k].name]
    \o (IF Len(rec.components) > 0 THEN <<"Corrected">> ELSE <<>>)
    \o (IF rec.lim THEN <<"Limit">> ELSE <<>>)

\* C12: save_to_csv of a record that holds a trace writes, as fourth row, the
\* headings Frequency (Hz), DSA, the components' names in the order added,
\* Corrected iff a component is attached and Limit iff a limit is attached,
\* followed by one data row per trace point, each as long as the header.
C12_HeaderRow ==
    (out.op = "save_to_csv" /\ rec.has_data) =>
        /\ Len(file.lines) = 4 + Len(rec.data)
        /\ file.lines[4] = ExpectedHeadings
        /\ \A r \in 5..Len(file.lines) : Len(file.lines[r]) = Len(ExpectedHeadings)

----------------------------------------------------------------------------
(* Claims about the measurement script *)

KnownLimit(params) ==
    /\ params.limit_std \in DOMAIN limit_table
    /\ params.limit_units \in DOMAIN unit_index

\* C10: an unknown standard or unit fails when the limit object is built,
\* before any instrument command of the acquisition; a known standard and
\* unit do not fail there.
C10_FailFast ==
    /\ (flow.at \in {"limit", "raised at limit"} /\ ~KnownLimit(flow.params)) =>
          (flow.at = "raised at limit" /\ flow.commands = 0)
    /\ (flow.at \in {"limit", "raised at limit"} /\ KnownLimit(flow.params)) =>
          flow.at = "limit"

====
